---- MODULE Spec2Model ----
(***************************************************************************)
(* Model of the terminal's virtual filesystem                              *)
(* (src/src/apps/terminal/vfs.ts), of its command interpreter              *)
(* (src/src/apps/terminal/terminalCore.ts) and of the cwd that the         *)
(* terminal threads through it (src/unnamed/part_009).                     *)
(*                                                                         *)
(* Objects live in a heap: a function from object identities to FSNode     *)
(* records.  A directory's Map<string, FSNode> is a sequence of            *)
(* <<key, identity>> pairs in insertion order, so that aliasing, cycles    *)
(* and detached subtrees are representable exactly as the JavaScript       *)
(* object graph has them.                                                  *)
(*                                                                         *)
(* A path or cwd string is represented by the list of segments that        *)
(* split('/') returns for it: "/a" is <<"", "a">>, "/" is <<"", "">>,      *)
(* "a/.." is <<"a", "..">> and the empty string is <<"">>.                 *)
(***************************************************************************)
EXTENDS Integers, Sequences, FiniteSets, TLC

VARIABLES
    vfsInstance,  \* "null" before the first getVFS(), "VirtualFS" afterwards
    heap,         \* object identity -> FSNode
    store,        \* localStorage: the value under STORAGE_KEY, or NoEntry
    last,         \* the last mutating call made on the VFS and what it
                  \* returned, while no query has followed it
    copied,       \* the last successful cp, while only calls at or below
                  \* its src or dst have followed it
    calls,        \* the number of calls made on the VFS
    answer        \* the last query made or command line run, its arguments
                  \* and what it returned

vars == <<vfsInstance, heap, store, last, copied, calls, answer>>

----------------------------------------------------------------------------
\* Bounds and input sets

MaxNodes == 4

MaxCalls == 2

\* The longest path and the longest cwd, in segments, that resolvePath is
\* given on its own.
MaxPathSegs == 4

MaxCwdSegs == 2

Names == {"sandbox", "a"}

Contents == {"", "hello"}

\* ".", "..", "a", "sandbox", "/", "/a", "/sandbox", "sandbox/a",
\* "a/sandbox", "../a"
PathArgs ==
    {<<".">>, <<"..">>, <<"a">>, <<"sandbox">>,
     <<"", "">>, <<"", "a">>, <<"", "sandbox">>,
     <<"sandbox", "a">>, <<"a", "sandbox">>, <<"..", "a">>}

\* "/", "/sandbox"
CwdArgs == {<<"", "">>, <<"", "sandbox">>}

----------------------------------------------------------------------------
\* Values

RootId == 0

Null == -1

Undefined == "<undefined>"

\* the default cwd = '/'
RootCwd == <<"", "">>

\* string | null
Str(s) == [null |-> FALSE, str |-> s]

NullStr == [null |-> TRUE, str |-> ""]

NoEntry == [type |-> "<no entry>"]

\* An entry that JSON.parse rejects, and the entry "null".
Unparseable == [type |-> "<unparseable>"]

JsonNull == [type |-> "<null>"]

RangeError == [type |-> "<RangeError>"]

NoAnswer == [op |-> "none"]

\* The return value of a call that has not returned yet.
Pending == <<"<pending>">>

NoCopy == [src |-> <<Undefined>>, dst |-> <<Undefined>>, apart |-> FALSE]

FileNode(name, content) == [type |-> "file", name |-> name, content |-> content]

DirectoryNode(name, children) ==
    [type |-> "directory", name |-> name, children |-> children]

----------------------------------------------------------------------------
\* Map<string, FSNode>: insertion-ordered sequence of <<key, value>> pairs

MapHas(m, k) == \E i \in 1..Len(m) : m[i][1] = k

MapGet(m, k) ==
    IF MapHas(m, k)
    THEN m[CHOOSE i \in 1..Len(m) : m[i][1] = k][2]
    ELSE Null

MapSet(m, k, v) ==
    IF MapHas(m, k)
    THEN [i \in 1..Len(m) |-> IF m[i][1] = k THEN <<k, v>> ELSE m[i]]
    ELSE Append(m, <<k, v>>)

MapDelete(m, k) == SelectSeq(m, LAMBDA e : e[1] # k)

----------------------------------------------------------------------------
\* Object allocation and reachability

NewId(h) ==
    CHOOSE i \in 0..Cardinality(DOMAIN h) :
        i \notin DOMAIN h /\ \A j \in 0..(i - 1) : j \in DOMAIN h

Alloc(h, node) ==
    [i \in DOMAIN h \cup {NewId(h)} |-> IF i \in DOMAIN h THEN h[i] ELSE node]

ChildIds(h, n) ==
    IF h[n].type = "directory"
    THEN {h[n].children[i][2] : i \in 1..Len(h[n].children)}
    ELSE {}

RECURSIVE ReachFrom(_, _, _)
ReachFrom(h, frontier, seen) ==
    IF frontier = {} THEN seen
    ELSE LET next == (UNION {ChildIds(h, n) : n \in frontier}) \ seen
         IN  ReachFrom(h, next, seen \cup next)

Reach(h, n) == ReachFrom(h, {n}, {n})

ChildSeq(h, n) ==
    IF h[n].type = "directory"
    THEN [i \in 1..Len(h[n].children) |-> h[n].children[i][2]]
    ELSE <<>>

SeqRange(s) == {s[i] : i \in 1..Len(s)}

\* The objects reachable from this.root, in the order a walk from the root
\* first meets them.
RECURSIVE VisitOrder(_, _, _)
VisitOrder(h, todo, visited) ==
    IF todo = <<>> THEN visited
    ELSE IF Head(todo) \in SeqRange(visited)
    THEN VisitOrder(h, Tail(todo), visited)
    ELSE VisitOrder(h, ChildSeq(h, Head(todo)) \o Tail(todo),
                    Append(visited, Head(todo)))

\* Objects that are no longer reachable from the root object are dropped,
\* and the identities of the others are renamed to their position in the
\* walk (the root becomes RootId): an identity carries no information
\* beyond distinguishing objects.
CollectFrom(h, root) ==
    LET order == VisitOrder(h, <<root>>, <<>>)
        NewName(n) == (CHOOSE i \in 1..Len(order) : order[i] = n) - 1
        Renamed(node) ==
            IF node.type = "directory"
            THEN [node EXCEPT !.children =
                      [i \in 1..Len(@) |-> <<@[i][1], NewName(@[i][2])>>]]
            ELSE node
    IN  [i \in 0..(Len(order) - 1) |-> Renamed(h[order[i + 1]])]

Collect(h) == CollectFrom(h, RootId)

----------------------------------------------------------------------------
\* resolvePath

StartsWithSlash(path) == Len(path) >= 2 /\ path[1] = ""

FilterBoolean(segs) == SelectSeq(segs, LAMBDA s : s # "")

Pop(s) == SubSeq(s, 1, Len(s) - 1)

LastOf(s) == IF Len(s) = 0 THEN Undefined ELSE s[Len(s)]

\* Mutant: a '..' with nothing left to pop is kept as a segment.
RECURSIVE ResolveLoop_keepDotDot(_, _)
ResolveLoop_keepDotDot(parts, resolved) ==
    IF parts = <<>> THEN resolved
    ELSE LET part == Head(parts)
         IN  IF part = ".."
             THEN ResolveLoop_keepDotDot(Tail(parts),
                                         IF Len(resolved) > 0
                                         THEN Pop(resolved)
                                         ELSE Append(resolved, part))
             ELSE IF part # "."
                  THEN ResolveLoop_keepDotDot(Tail(parts), Append(resolved, part))
                  ELSE ResolveLoop_keepDotDot(Tail(parts), resolved)

RECURSIVE ResolveLoop(_, _)
ResolveLoop(parts, resolved) ==
    IF parts = <<>> THEN resolved
    ELSE LET part == Head(parts)
         IN  IF part = ".."
             THEN ResolveLoop(Tail(parts),
                              IF Len(resolved) > 0 THEN Pop(resolved) ELSE resolved)
             ELSE IF part # "."
                  THEN ResolveLoop(Tail(parts), Append(resolved, part))
                  ELSE ResolveLoop(Tail(parts), resolved)

resolvePath(path, cwd) ==
    LET parts == IF StartsWithSlash(path)
                 THEN FilterBoolean(path)
                 ELSE FilterBoolean(cwd) \o FilterBoolean(path)
    IN  ResolveLoop(parts, <<>>)

----------------------------------------------------------------------------
\* getNode / getParent

RECURSIVE WalkFrom(_, _, _)
WalkFrom(h, current, parts) ==
    IF parts = <<>> THEN current
    ELSE IF h[current].type # "directory" THEN Null
    ELSE LET child == MapGet(h[current].children, Head(parts))
         IN  IF child = Null THEN Null
             ELSE WalkFrom(h, child, Tail(parts))

getNode(h, path, cwd) == WalkFrom(h, RootId, resolvePath(path, cwd))

getParent(h, path, cwd) ==
    LET parts == resolvePath(path, cwd)
    IN  IF Len(parts) = 0 THEN RootId
        ELSE LET current == WalkFrom(h, RootId, Pop(parts))
             IN  IF current = Null THEN Null
                 ELSE IF h[current].type = "directory" THEN current ELSE Null

----------------------------------------------------------------------------
\* serialize / save

RECURSIVE serialize(_, _, _)
RECURSIVE SerializeEntries(_, _, _)

\* onStack: the nodes of the pending serialize calls.  Meeting one of them
\* again is an unbounded recursion, which ends in a RangeError.
serialize(h, node, onStack) ==
    IF node \in onStack THEN RangeError
    ELSE IF h[node].type = "file"
    THEN [type |-> "file", name |-> h[node].name, content |-> h[node].content]
    ELSE LET kids == SerializeEntries(h, h[node].children, onStack \cup {node})
         IN  IF ~kids.ok THEN RangeError
             ELSE [type |-> "directory", name |-> h[node].name,
                   children |-> kids.list]

\* Array.from(node.children.entries()).map(([name, child]) => [name, ...])
SerializeEntries(h, entries, onStack) ==
    IF entries = <<>> THEN [ok |-> TRUE, list |-> <<>>]
    ELSE LET first == serialize(h, Head(entries)[2], onStack)
         IN  IF first = RangeError THEN [ok |-> FALSE, list |-> <<>>]
             ELSE LET rest == SerializeEntries(h, Tail(entries), onStack)
                  IN  IF ~rest.ok THEN rest
                      ELSE [ok |-> TRUE,
                            list |-> <<<<Head(entries)[1], first>>>> \o rest.list]

\* deserialize

HasField(data, f) == f \in DOMAIN data

\* data.f || ''
OrEmpty(data, f) == IF HasField(data, f) THEN data[f] ELSE ""

RECURSIVE deserialize(_, _)
RECURSIVE DeserializeEntries(_, _, _)

\* Returns the heap with the node allocated in it and the node's identity.
deserialize(h, data) ==
    IF HasField(data, "type") /\ data.type = "file"
    THEN [heap |-> Alloc(h, FileNode(IF HasField(data, "name") THEN data.name
                                     ELSE Undefined,
                                     OrEmpty(data, "content"))),
          id |-> NewId(h)]
    ELSE LET kids == IF HasField(data, "children")
                     THEN DeserializeEntries(h, data.children, <<>>)
                     ELSE [heap |-> h, children |-> <<>>]
         IN  [heap |-> Alloc(kids.heap,
                             DirectoryNode(OrEmpty(data, "name"), kids.children)),
              id |-> NewId(kids.heap)]

\* for (const [name, childData] of data.children)
\*     children.set(name, this.deserialize(childData))
DeserializeEntries(h, entries, children) ==
    IF entries = <<>> THEN [heap |-> h, children |-> children]
    ELSE LET first == deserialize(h, Head(entries)[2])
         IN  DeserializeEntries(first.heap, Tail(entries),
                                MapSet(children, Head(entries)[1], first.id))

\* The value written under STORAGE_KEY; a throw inside the try block leaves
\* the entry as it was.
save(h, st) ==
    LET serialized == serialize(h, RootId, {})
    IN  IF serialized = RangeError THEN st ELSE serialized

Result(h, st, ret) == [heap |-> h, store |-> st, ret |-> ret]

----------------------------------------------------------------------------
\* mkdir

\* Mutant: an existing directory on the path is an error.
RECURSIVE MkdirLoop_noReuse(_, _, _)
MkdirLoop_noReuse(h, current, parts) ==
    IF parts = <<>> THEN [ok |-> TRUE, heap |-> h]
    ELSE IF h[current].type # "directory" THEN [ok |-> FALSE, heap |-> h]
    ELSE LET part == Head(parts)
             existing == MapGet(h[current].children, part)
         IN  IF existing # Null
             THEN [ok |-> FALSE, heap |-> h]
             ELSE LET newDir == NewId(h)
                      h1 == Alloc(h, DirectoryNode(part, <<>>))
                      h2 == [h1 EXCEPT ![current].children =
                                           MapSet(@, part, newDir)]
                  IN  MkdirLoop_noReuse(h2, newDir, Tail(parts))

\* Mutant: a file met on the path is replaced by a new directory.
RECURSIVE MkdirLoop_overFile(_, _, _)
MkdirLoop_overFile(h, current, parts) ==
    IF parts = <<>> THEN [ok |-> TRUE, heap |-> h]
    ELSE IF h[current].type # "directory" THEN [ok |-> FALSE, heap |-> h]
    ELSE LET part == Head(parts)
             existing == MapGet(h[current].children, part)
         IN  IF existing # Null /\ h[existing].type = "directory"
             THEN MkdirLoop_overFile(h, existing, Tail(parts))
             ELSE LET newDir == NewId(h)
                      h1 == Alloc(h, DirectoryNode(part, <<>>))
                      h2 == [h1 EXCEPT ![current].children =
                                           MapSet(@, part, newDir)]
                  IN  MkdirLoop_overFile(h2, newDir, Tail(parts))

RECURSIVE MkdirLoop(_, _, _)
MkdirLoop(h, current, parts) ==
    IF parts = <<>> THEN [ok |-> TRUE, heap |-> h]
    ELSE IF h[current].type # "directory" THEN [ok |-> FALSE, heap |-> h]
    ELSE LET part == Head(parts)
             existing == MapGet(h[current].children, part)
         IN  IF existing # Null
             THEN IF h[existing].type = "file"
                  THEN [ok |-> FALSE, heap |-> h]
                  ELSE MkdirLoop(h, existing, Tail(parts))
             ELSE LET newDir == NewId(h)
                      h1 == Alloc(h, DirectoryNode(part, <<>>))
                      h2 == [h1 EXCEPT ![current].children =
                                           MapSet(@, part, newDir)]
                  IN  MkdirLoop(h2, newDir, Tail(parts))

mkdir(h, st, path, cwd) ==
    LET parts == resolvePath(path, cwd)
    IN  IF Len(parts) = 0 THEN Result(h, st, "false")
        ELSE LET r == MkdirLoop(h, RootId, parts)
             IN  IF r.ok
                 THEN Result(r.heap, save(r.heap, st), "true")
                 ELSE Result(r.heap, st, "false")

----------------------------------------------------------------------------
\* write

\* Mutant: the directories missing above the file are made first.
write_makeParents(h, st, path, content, cwd) ==
    LET parts == resolvePath(path, cwd)
    IN  IF Len(parts) = 0 THEN Result(h, st, "false")
        ELSE LET made == MkdirLoop(h, RootId, Pop(parts))
                 parent == WalkFrom(made.heap, RootId, Pop(parts))
             IN  IF ~made.ok THEN Result(made.heap, st, "false")
                 ELSE LET name == LastOf(parts)
                          file == NewId(made.heap)
                          h1 == Alloc(made.heap, FileNode(name, content))
                          h2 == [h1 EXCEPT ![parent].children =
                                               MapSet(@, name, file)]
                      IN  Result(h2, save(h2, st), "true")

write(h, st, path, content, cwd) ==
    LET parts == resolvePath(path, cwd)
    IN  IF Len(parts) = 0 THEN Result(h, st, "false")
        ELSE LET parent == getParent(h, path, cwd)
             IN  IF parent = Null THEN Result(h, st, "false")
                 ELSE LET name == LastOf(parts)
                          file == NewId(h)
                          h1 == Alloc(h, FileNode(name, content))
                          h2 == [h1 EXCEPT ![parent].children =
                                               MapSet(@, name, file)]
                      IN  Result(h2, save(h2, st), "true")

----------------------------------------------------------------------------
\* rm / rmdir

\* Mutant: no directory is found to have children.
IsNonEmptyDirectory_never(h, node) == FALSE

\* node.type === 'directory' && node.children.size > 0
IsNonEmptyDirectory(h, node) ==
    h[node].type = "directory" /\ Len(h[node].children) > 0

rm(h, st, path, cwd) ==
    LET parts == resolvePath(path, cwd)
    IN  IF Len(parts) = 0 THEN Result(h, st, "false")
        ELSE LET parent == getParent(h, path, cwd)
             IN  IF parent = Null THEN Result(h, st, "false")
                 ELSE LET name == LastOf(parts)
                          node == MapGet(h[parent].children, name)
                      IN  IF node = Null THEN Result(h, st, "false")
                          ELSE IF IsNonEmptyDirectory(h, node)
                          THEN Result(h, st, "false")
                          ELSE LET h1 == [h EXCEPT ![parent].children =
                                                       MapDelete(@, name)]
                               IN  Result(h1, save(h1, st), "true")

\* Mutant: rmdir removes directories only.
rmdir_directories(h, st, path, cwd) ==
    IF (getNode(h, path, cwd) # Null /\ h[getNode(h, path, cwd)].type = "file") THEN Result(h, st, "false")
    ELSE rm(h, st, path, cwd)

rmdir(h, st, path, cwd) == rm(h, st, path, cwd)

----------------------------------------------------------------------------
\* mv

\* Mutant: the destination is never found to exist.
mvDestinationExists_never(h, dstParent, dstName) == FALSE

\* dstParent.children.has(dstName)
mvDestinationExists(h, dstParent, dstName) ==
    MapHas(h[dstParent].children, dstName)

mv(h, st, src, dst, cwd) ==
    LET srcNode == getNode(h, src, cwd)
        dstParts == resolvePath(dst, cwd)
        dstParent == getParent(h, dst, cwd)
        dstName == LastOf(dstParts)
        srcParts == resolvePath(src, cwd)
        srcParent == getParent(h, src, cwd)
        srcName == LastOf(srcParts)
    IN  IF srcNode = Null THEN Result(h, st, "false")
        ELSE IF Len(dstParts) = 0 THEN Result(h, st, "false")
        ELSE IF dstParent = Null THEN Result(h, st, "false")
        ELSE IF mvDestinationExists(h, dstParent, dstName)
        THEN Result(h, st, "false")
        ELSE IF srcParent = Null THEN Result(h, st, "false")
        ELSE LET h1 == [h EXCEPT ![srcParent].children = MapDelete(@, srcName)]
                 h2 == [h1 EXCEPT ![srcNode].name = dstName]
                 h3 == [h2 EXCEPT ![dstParent].children =
                                      MapSet(@, dstName, srcNode)]
             IN  Result(h3, save(h3, st), "true")

----------------------------------------------------------------------------
\* cp / deepCopy

RECURSIVE deepCopy(_, _, _)
RECURSIVE DeepCopyEntries(_, _, _, _)

\* Mutant: the copy is the node itself.
deepCopy_alias(h, node, onStack) == [ok |-> TRUE, heap |-> h, id |-> node]

\* Returns the heap with the copy allocated in it and the copy's identity.
\* onStack: the nodes of the pending deepCopy calls; meeting one of them
\* again is an unbounded recursion, which ends in a RangeError.
deepCopy(h, node, onStack) ==
    IF node \in onStack THEN [ok |-> FALSE, heap |-> h, id |-> Null]
    ELSE IF h[node].type = "file"
    THEN [ok |-> TRUE,
          heap |-> Alloc(h, FileNode(h[node].name, h[node].content)),
          id |-> NewId(h)]
    ELSE LET kids == DeepCopyEntries(h, h[node].children, <<>>,
                                     onStack \cup {node})
         IN  IF ~kids.ok THEN [ok |-> FALSE, heap |-> h, id |-> Null]
             ELSE [ok |-> TRUE,
                   heap |-> Alloc(kids.heap,
                                  DirectoryNode(h[node].name, kids.children)),
                   id |-> NewId(kids.heap)]

\* for (const [name, child] of node.children.entries())
\*     children.set(name, this.deepCopy(child))
DeepCopyEntries(h, entries, children, onStack) ==
    IF entries = <<>> THEN [ok |-> TRUE, heap |-> h, children |-> children]
    ELSE LET first == deepCopy(h, Head(entries)[2], onStack)
         IN  IF ~first.ok THEN [ok |-> FALSE, heap |-> h, children |-> <<>>]
             ELSE DeepCopyEntries(first.heap, Tail(entries),
                                  MapSet(children, Head(entries)[1], first.id),
                                  onStack)

cp(h, st, src, dst, cwd) ==
    LET srcNode == getNode(h, src, cwd)
        dstParts == resolvePath(dst, cwd)
        dstParent == getParent(h, dst, cwd)
        dstName == LastOf(dstParts)
    IN  IF srcNode = Null THEN Result(h, st, "false")
        ELSE IF Len(dstParts) = 0 THEN Result(h, st, "false")
        ELSE IF dstParent = Null THEN Result(h, st, "false")
        ELSE IF MapHas(h[dstParent].children, dstName) THEN Result(h, st, "false")
        ELSE LET copy == deepCopy(h, srcNode, {})
             IN  IF ~copy.ok THEN Result(h, st, "throw")
                 ELSE LET h1 == [copy.heap EXCEPT ![copy.id].name = dstName]
                          h2 == [h1 EXCEPT ![dstParent].children =
                                               MapSet(@, dstName, copy.id)]
                      IN  Result(h2, save(h2, st), "true")

----------------------------------------------------------------------------
\* The queries

\* '/' + parts.join('/'), as the list of segments between its slashes
getAbsolutePath(path, cwd) ==
    LET parts == resolvePath(path, cwd)
    IN  IF parts = <<>> THEN <<"", "">> ELSE <<"">> \o parts

\* Array.from(node.children.values()), [node] for a file, [] for no node:
\* the nodes, by identity
\* Mutant: the children come last first.
list_reversed(h, path, cwd) ==
    LET node == getNode(h, path, cwd)
    IN  IF node = Null THEN <<>>
        ELSE IF h[node].type = "file" THEN <<node>>
        ELSE [i \in 1..Len(h[node].children) |->
                 h[node].children[Len(h[node].children) + 1 - i][2]]

list(h, path, cwd) ==
    LET node == getNode(h, path, cwd)
    IN  IF node = Null THEN <<>>
        ELSE IF h[node].type = "file" THEN <<node>>
        ELSE [i \in 1..Len(h[node].children) |-> h[node].children[i][2]]

exists(h, path, cwd) == getNode(h, path, cwd) # Null

\* node?.type === 'directory' ?? false
isDirectory(h, path, cwd) ==
    LET node == getNode(h, path, cwd)
    IN  node # Null /\ h[node].type = "directory"

isFile(h, path, cwd) ==
    LET node == getNode(h, path, cwd)
    IN  node # Null /\ h[node].type = "file"

read(h, path, cwd) ==
    LET node == getNode(h, path, cwd)
    IN  IF node # Null /\ h[node].type = "file"
        THEN Str(h[node].content)
        ELSE NullStr

\* content.length and content.substring(0, n), for the strings of Contents
\* and their prefixes
StrLen(str) ==
    CASE str = "" -> 0
      [] str = "h" -> 1
      [] str = "he" -> 2
      [] str = "hel" -> 3
      [] str = "hell" -> 4
      [] str = "hello" -> 5

Substring(str, n) ==
    IF n <= 0 \/ str = "" THEN ""
    ELSE IF n >= StrLen(str) THEN str
    ELSE <<"h", "he", "hel", "hell">>[n]

\* if (depth > 10) return
MaxDepth == 10

\* maxItems: number = 100, maxPreview: number = 120
DefaultMaxItems == 100

DefaultMaxPreview == 120

RECURSIVE collect(_, _, _, _, _, _, _)
RECURSIVE CollectChildren(_, _, _, _, _, _, _)

\* Mutant: one entry more than maxItems is let in.
collect_oneMore(h, node, currentPath, depth, snapshot, maxItems, maxPreview) ==
    IF Len(snapshot) > maxItems THEN snapshot
    ELSE IF depth > MaxDepth THEN snapshot
    ELSE IF h[node].type = "file"
    THEN Append(snapshot,
                [path |-> currentPath, type |-> "file",
                 size |-> StrLen(h[node].content),
                 preview |-> Substring(h[node].content, maxPreview)])
    ELSE CollectChildren(h, h[node].children, currentPath, depth,
                         Append(snapshot, [path |-> currentPath, type |-> "dir"]),
                         maxItems, maxPreview)

\* The snapshot after collect(node, currentPath, depth) has run on it.
collect(h, node, currentPath, depth, snapshot, maxItems, maxPreview) ==
    IF Len(snapshot) >= maxItems THEN snapshot
    ELSE IF depth > MaxDepth THEN snapshot
    ELSE IF h[node].type = "file"
    THEN Append(snapshot,
                [path |-> currentPath, type |-> "file",
                 size |-> StrLen(h[node].content),
                 preview |-> Substring(h[node].content, maxPreview)])
    ELSE CollectChildren(h, h[node].children, currentPath, depth,
                         Append(snapshot, [path |-> currentPath, type |-> "dir"]),
                         maxItems, maxPreview)

\* for (const [name, child] of node.children.entries())
\*     collect(child, childPath, depth + 1)
CollectChildren(h, entries, currentPath, depth, snapshot, maxItems, maxPreview) ==
    IF entries = <<>> THEN snapshot
    ELSE LET name == Head(entries)[1]
             childPath == IF currentPath = <<"", "">>
                          THEN <<"", name>>
                          ELSE Append(currentPath, name)
         IN  CollectChildren(h, Tail(entries), currentPath, depth,
                             collect(h, Head(entries)[2], childPath, depth + 1,
                                     snapshot, maxItems, maxPreview),
                             maxItems, maxPreview)

getSnapshot(h, rootPath, maxItems, maxPreview) ==
    LET rootNode == getNode(h, rootPath, RootCwd)
    IN  IF rootNode # Null
        THEN collect(h, rootNode, rootPath, 0, <<>>, maxItems, maxPreview)
        ELSE <<>>

----------------------------------------------------------------------------
\* parseCommand (src/src/apps/terminal/terminalCore.ts)
\*
\* An input line is the list of its characters, where a run of characters
\* that are neither a blank, a tab, a quote nor a slash is written as one
\* word: "cd /a" is <<"cd", " ", "/", "a">>.  The loop of parseCommand takes
\* the same branch for every character of a word.  The strings built from
\* them are, as everywhere in this model, the lists of segments split('/')
\* returns: "cd" is <<"cd">>, "/a" is <<"", "a">>.

EmptyString == <<"">>

\* the characters trim() removes, of those a line is made of here
WhiteSpace == {" ", "\t"}

\* str + char
AppendChar(str, char) ==
    IF char = "/" THEN Append(str, "")
    ELSE [str EXCEPT ![Len(str)] = @ \o char]

\* str + other
Concat(str, other) ==
    SubSeq(str, 1, Len(str) - 1)
        \o <<str[Len(str)] \o other[1]>>
        \o Tail(other)

\* strs.join(sep)
RECURSIVE join(_, _)
join(strs, sep) ==
    IF strs = <<>> THEN EmptyString
    ELSE IF Len(strs) = 1 THEN strs[1]
    ELSE Concat(Concat(strs[1], sep), join(Tail(strs), sep))

\* The string itself, its slashes put back between the segments.
RECURSIVE Text(_)
Text(str) ==
    IF Len(str) = 1 THEN str[1]
    ELSE str[1] \o "/" \o Text(Tail(str))

\* toLowerCase() of a word: the words with capital letters that the lines
\* below are made of; every other word has none.
LowerCase(word) ==
    CASE word = "LS" -> "ls"
      [] word = "MkDir" -> "mkdir"
      [] word = "FooBar" -> "foobar"
      [] word = "CLEAR" -> "clear"
      [] word = "A" -> "a"
      [] OTHER -> word

toLowerCase(str) == [i \in 1..Len(str) |-> LowerCase(str[i])]

RECURSIVE TrimStart(_)
TrimStart(chars) ==
    IF chars # <<>> /\ Head(chars) \in WhiteSpace
    THEN TrimStart(Tail(chars))
    ELSE chars

RECURSIVE TrimEnd(_)
TrimEnd(chars) ==
    IF chars # <<>> /\ chars[Len(chars)] \in WhiteSpace
    THEN TrimEnd(Pop(chars))
    ELSE chars

trim(input) == TrimEnd(TrimStart(input))

\* for (let i = 0; i < trimmed.length; i++) { ... } and the flush after it:
\* the parts, given the characters still to read
RECURSIVE ParseLoop(_, _, _, _, _)
ParseLoop(chars, parts, current, inQuotes, quoteChar) ==
    IF chars = <<>>
    THEN IF current # EmptyString THEN Append(parts, current) ELSE parts
    ELSE LET char == Head(chars)
         IN  IF (char = "\"" \/ char = "'") /\ ~inQuotes
             THEN ParseLoop(Tail(chars), parts, current, TRUE, char)
             ELSE IF char = quoteChar /\ inQuotes
             THEN ParseLoop(Tail(chars), parts, current, FALSE, "")
             ELSE IF char = " " /\ ~inQuotes
             THEN IF current # EmptyString
                  THEN ParseLoop(Tail(chars), Append(parts, current),
                                 EmptyString, inQuotes, quoteChar)
                  ELSE ParseLoop(Tail(chars), parts, current,
                                 inQuotes, quoteChar)
             ELSE ParseLoop(Tail(chars), parts, AppendChar(current, char),
                            inQuotes, quoteChar)

\* Mutant: the command name keeps the letter case it was typed in.
parseCommand_caseKept(input) ==
    LET trimmed == trim(input)
        parts == ParseLoop(trimmed, <<>>, EmptyString, FALSE, "")
    IN  IF trimmed = <<>> \/ parts = <<>>
        THEN [command |-> EmptyString, args |-> <<>>]
        ELSE [command |-> parts[1], args |-> Tail(parts)]

parseCommand(input) ==
    LET trimmed == trim(input)
        parts == ParseLoop(trimmed, <<>>, EmptyString, FALSE, "")
    IN  IF trimmed = <<>> \/ parts = <<>>
        THEN [command |-> EmptyString, args |-> <<>>]
        ELSE [command |-> toLowerCase(parts[1]), args |-> Tail(parts)]


----------------------------------------------------------------------------
\* executeCommand (src/src/apps/terminal/terminalCore.ts)

\* Mutant: cd into whatever the path names, a file included.
executeCommand_cd_exists(h, args, cwd) ==
    LET path == IF args # <<>> THEN args[1] ELSE <<"", "sandbox">>
        absPath == getAbsolutePath(path, cwd)
    IN  IF exists(h, path, cwd)
        THEN [output |-> <<>>, cwd |-> absPath]
        ELSE [output |-> <<<<"cd: ", path, ": No such directory">>>>,
              cwd |-> cwd]

\* case 'cd': args are the operands of the line, a line of the output is
\* the list of the pieces it is put together from.
executeCommand_cd(h, args, cwd) ==
    LET path == IF args # <<>> THEN args[1] ELSE <<"", "sandbox">>
        absPath == getAbsolutePath(path, cwd)
    IN  IF isDirectory(h, path, cwd)
        THEN [output |-> <<>>, cwd |-> absPath]
        ELSE [output |-> <<<<"cd: ", path, ": No such directory">>>>,
              cwd |-> cwd]

\* A CommandResult is a record with the fields output and cwd, and with the
\* field clear when the code sets it.  A line of the output is the list of
\* the pieces it is put together from.  Each case returns the heap and the
\* entry in localStorage as its VFS calls leave them, and the CommandResult.

\* the prefix of an entry of ls: U+1F4C1 (file folder), U+1F4C4 (page)
FolderPrefix == "<U+1F4C1>"

PagePrefix == "<U+1F4C4>"

executeCommand_help(h, st, args, cwd) ==
    Result(h, st,
           [output |-> <<<<"Available commands:">>,
                         <<"  help          - Show this help message">>,
                         <<"  pwd           - Print working directory">>,
                         <<"  ls [path]     - List directory contents">>,
                         <<"  cd [path]     - Change directory">>,
                         <<"  mkdir <path>  - Create directory">>,
                         <<"  rmdir <path>  - Remove directory">>,
                         <<"  touch <file>  - Create empty file">>,
                         <<"  cat <file>    - Display file contents">>,
                         <<"  echo <text>   - Print text">>,
                         <<"  write <file> <content> - Write content to file">>,
                         <<"  read <file>   - Read file contents">>,
                         <<"  rm <path>     - Remove file or directory">>,
                         <<"  mv <src> <dst> - Move/rename file or directory">>,
                         <<"  cp <src> <dst> - Copy file or directory">>,
                         <<"  clear         - Clear terminal">>>>,
            cwd |-> cwd])

executeCommand_pwd(h, st, args, cwd) ==
    Result(h, st, [output |-> <<<<IF cwd = <<"", "">> THEN <<"", "">> ELSE cwd>>>>,
                   cwd |-> cwd])

\* Mutant: a directory is listed as a file is.
executeCommand_ls_plain(h, st, args, cwd) ==
    LET path == IF args # <<>> THEN args[1] ELSE <<".">>
        nodes == list(h, path, cwd)
    IN  Result(h, st,
               [output |-> [i \in 1..Len(nodes) |->
                               <<PagePrefix, " ", h[nodes[i]].name, "">>],
                cwd |-> cwd])

executeCommand_ls(h, st, args, cwd) ==
    LET path == IF args # <<>> THEN args[1] ELSE <<".">>
        nodes == list(h, path, cwd)
        prefix(node) == IF h[node].type = "directory"
                        THEN FolderPrefix ELSE PagePrefix
        suffix(node) == IF h[node].type = "directory" THEN "/" ELSE ""
    IN  Result(h, st,
               [output |-> [i \in 1..Len(nodes) |->
                               <<prefix(nodes[i]), " ", h[nodes[i]].name,
                                 suffix(nodes[i])>>],
                cwd |-> cwd])

executeCommand_mkdir(h, st, args, cwd) ==
    IF Len(args) = 0
    THEN Result(h, st, [output |-> <<<<"mkdir: missing operand">>>>, cwd |-> cwd])
    ELSE LET path == args[1]
             r == mkdir(h, st, path, cwd)
         IN  IF r.ret = "true"
             THEN Result(r.heap, r.store, [output |-> <<>>, cwd |-> cwd])
             ELSE Result(r.heap, r.store,
                         [output |-> <<<<"mkdir: cannot create directory '",
                                         path, "'">>>>,
                          cwd |-> cwd])

executeCommand_rmdir(h, st, args, cwd) ==
    IF Len(args) = 0
    THEN Result(h, st, [output |-> <<<<"rmdir: missing operand">>>>, cwd |-> cwd])
    ELSE LET path == args[1]
             r == rmdir(h, st, path, cwd)
         IN  IF r.ret = "true"
             THEN Result(r.heap, r.store, [output |-> <<>>, cwd |-> cwd])
             ELSE Result(r.heap, r.store,
                         [output |-> <<<<"rmdir: cannot remove '", path, "'">>>>,
                          cwd |-> cwd])

\* Mutant: a file that exists is left as it is.
executeCommand_touch_keeps(h, st, args, cwd) ==
    IF Len(args) = 0
    THEN Result(h, st, [output |-> <<<<"touch: missing operand">>>>, cwd |-> cwd])
    ELSE LET path == args[1]
             r == IF isFile(h, path, cwd)
                  THEN Result(h, st, "true")
                  ELSE write(h, st, path, "", cwd)
         IN  IF r.ret = "true"
             THEN Result(r.heap, r.store, [output |-> <<>>, cwd |-> cwd])
             ELSE Result(r.heap, r.store,
                         [output |-> <<<<"touch: cannot create '", path, "'">>>>,
                          cwd |-> cwd])

executeCommand_touch(h, st, args, cwd) ==
    IF Len(args) = 0
    THEN Result(h, st, [output |-> <<<<"touch: missing operand">>>>, cwd |-> cwd])
    ELSE LET path == args[1]
             r == write(h, st, path, "", cwd)
         IN  IF r.ret = "true"
             THEN Result(r.heap, r.store, [output |-> <<>>, cwd |-> cwd])
             ELSE Result(r.heap, r.store,
                         [output |-> <<<<"touch: cannot create '", path, "'">>>>,
                          cwd |-> cwd])

\* content.split('\n'): no content has a line break in it, since no line
\* typed into the terminal has one
executeCommand_cat(h, st, args, cwd) ==
    IF Len(args) = 0
    THEN Result(h, st, [output |-> <<<<"cat: missing operand">>>>, cwd |-> cwd])
    ELSE LET path == args[1]
             content == read(h, path, cwd)
         IN  IF ~content.null
             THEN Result(h, st, [output |-> <<<<content.str>>>>, cwd |-> cwd])
             ELSE Result(h, st,
                         [output |-> <<<<"cat: ", path, ": No such file">>>>,
                          cwd |-> cwd])

executeCommand_echo(h, st, args, cwd) ==
    LET text == join(args, <<" ">>)
    IN  Result(h, st, [output |-> <<<<text>>>>, cwd |-> cwd])

\* Mutant: a write line without content reports a missing operand.
executeCommand_write_operand(h, st, args, cwd) ==
    IF Len(args) < 2
    THEN Result(h, st, [output |-> <<<<"write: missing operand">>>>, cwd |-> cwd])
    ELSE LET path == args[1]
             content == Text(join(Tail(args), <<" ">>))
             r == write(h, st, path, content, cwd)
         IN  IF r.ret = "true"
             THEN Result(r.heap, r.store, [output |-> <<>>, cwd |-> cwd])
             ELSE Result(r.heap, r.store,
                         [output |-> <<<<"write: cannot write to '", path, "'">>>>,
                          cwd |-> cwd])

\* The content of a file is kept as the string itself.
executeCommand_write(h, st, args, cwd) ==
    IF Len(args) < 2
    THEN Result(h, st, [output |-> <<<<"write: usage: write <file> <content>">>>>,
                        cwd |-> cwd])
    ELSE LET path == args[1]
             content == Text(join(Tail(args), <<" ">>))
             r == write(h, st, path, content, cwd)
         IN  IF r.ret = "true"
             THEN Result(r.heap, r.store, [output |-> <<>>, cwd |-> cwd])
             ELSE Result(r.heap, r.store,
                         [output |-> <<<<"write: cannot write to '", path, "'">>>>,
                          cwd |-> cwd])

executeCommand_read(h, st, args, cwd) ==
    IF Len(args) = 0
    THEN Result(h, st, [output |-> <<<<"read: missing operand">>>>, cwd |-> cwd])
    ELSE LET path == args[1]
             content == read(h, path, cwd)
         IN  IF ~content.null
             THEN Result(h, st, [output |-> <<<<content.str>>>>, cwd |-> cwd])
             ELSE Result(h, st,
                         [output |-> <<<<"read: ", path, ": No such file">>>>,
                          cwd |-> cwd])

executeCommand_rm(h, st, args, cwd) ==
    IF Len(args) = 0
    THEN Result(h, st, [output |-> <<<<"rm: missing operand">>>>, cwd |-> cwd])
    ELSE LET path == args[1]
             r == rm(h, st, path, cwd)
         IN  IF r.ret = "true"
             THEN Result(r.heap, r.store, [output |-> <<>>, cwd |-> cwd])
             ELSE Result(r.heap, r.store,
                         [output |-> <<<<"rm: cannot remove '", path, "'">>>>,
                          cwd |-> cwd])

executeCommand_mv(h, st, args, cwd) ==
    IF Len(args) < 2
    THEN Result(h, st, [output |-> <<<<"mv: usage: mv <src> <dst>">>>>, cwd |-> cwd])
    ELSE LET src == args[1]
             dst == args[2]
             r == mv(h, st, src, dst, cwd)
         IN  IF r.ret = "true"
             THEN Result(r.heap, r.store, [output |-> <<>>, cwd |-> cwd])
             ELSE Result(r.heap, r.store,
                         [output |-> <<<<"mv: cannot move '", src, "' to '",
                                         dst, "'">>>>,
                          cwd |-> cwd])

\* A RangeError thrown by deepCopy leaves executeCommand as it left cp.
executeCommand_cp(h, st, args, cwd) ==
    IF Len(args) < 2
    THEN Result(h, st, [output |-> <<<<"cp: usage: cp <src> <dst>">>>>, cwd |-> cwd])
    ELSE LET src == args[1]
             dst == args[2]
             r == cp(h, st, src, dst, cwd)
         IN  IF r.ret = "throw"
             THEN Result(r.heap, r.store, RangeError)
             ELSE IF r.ret = "true"
             THEN Result(r.heap, r.store, [output |-> <<>>, cwd |-> cwd])
             ELSE Result(r.heap, r.store,
                         [output |-> <<<<"cp: cannot copy '", src, "' to '",
                                         dst, "'">>>>,
                          cwd |-> cwd])

\* Mutant: clear returns no flag.
executeCommand_clear_noFlag(h, st, args, cwd) ==
    Result(h, st, [output |-> <<>>, cwd |-> cwd])

executeCommand_clear(h, st, args, cwd) ==
    Result(h, st, [output |-> <<>>, cwd |-> cwd, clear |-> TRUE])

executeCommand_default(h, st, command, cwd) ==
    Result(h, st, [output |-> <<<<command, ": command not found">>>>, cwd |-> cwd])

\* executeCommand(input, cwd) on an instance that getVFS() returns as it is
executeCommand(h, st, input, cwd) ==
    LET parsed == parseCommand(input)
        command == parsed.command
        args == parsed.args
    IN  IF command = EmptyString
        THEN Result(h, st, [output |-> <<>>, cwd |-> cwd])
        ELSE CASE command = <<"help">> -> executeCommand_help(h, st, args, cwd)
               [] command = <<"pwd">> -> executeCommand_pwd(h, st, args, cwd)
               [] command = <<"ls">> -> executeCommand_ls(h, st, args, cwd)
               [] command = <<"cd">> ->
                      Result(h, st, executeCommand_cd(h, args, cwd))
               [] command = <<"mkdir">> -> executeCommand_mkdir(h, st, args, cwd)
               [] command = <<"rmdir">> -> executeCommand_rmdir(h, st, args, cwd)
               [] command = <<"touch">> -> executeCommand_touch(h, st, args, cwd)
               [] command = <<"cat">> -> executeCommand_cat(h, st, args, cwd)
               [] command = <<"echo">> -> executeCommand_echo(h, st, args, cwd)
               [] command = <<"write">> -> executeCommand_write(h, st, args, cwd)
               [] command = <<"read">> -> executeCommand_read(h, st, args, cwd)
               [] command = <<"rm">> -> executeCommand_rm(h, st, args, cwd)
               [] command = <<"mv">> -> executeCommand_mv(h, st, args, cwd)
               [] command = <<"cp">> -> executeCommand_cp(h, st, args, cwd)
               [] command = <<"clear">> -> executeCommand_clear(h, st, args, cwd)
               [] OTHER -> executeCommand_default(h, st, command, cwd)

----------------------------------------------------------------------------
\* The state machine

IsPrefix(prefix, p) ==
    Len(prefix) <= Len(p) /\ SubSeq(p, 1, Len(prefix)) = prefix

\* What a resolved path names in heap h.
Kind(h, parts) ==
    LET node == WalkFrom(h, RootId, parts)
        IsFileAt(p) == LET n == WalkFrom(h, RootId, p)
                       IN  n # Null /\ h[n].type = "file"
    IN  IF Len(parts) = 0 THEN "root"
        ELSE IF \E i \in 1..(Len(parts) - 1) : IsFileAt(SubSeq(parts, 1, i))
        THEN "below file"
        ELSE IF node = Null THEN "missing"
        ELSE IF h[node].type = "file" THEN "file"
        ELSE IF Len(h[node].children) = 0 THEN "empty directory"
        ELSE "directory"

\* The record of a call: what its paths named before the call, what it
\* returned and, for a call that returned true, the resolved paths.
Call2(op, p1, p2, ret) ==
    [op |-> op, ret |-> ret,
     k1 |-> Kind(heap, p1), k2 |-> Kind(heap, p2),
     p1 |-> IF ret = "true" THEN p1 ELSE <<>>,
     p2 |-> IF ret = "true" THEN p2 ELSE <<>>]

Call1(op, p1, ret) ==
    [op |-> op, ret |-> ret,
     k1 |-> Kind(heap, p1), k2 |-> "none",
     p1 |-> IF ret = "true" THEN p1 ELSE <<>>,
     p2 |-> <<>>]

NoCall ==
    [op |-> "none", ret |-> "none", k1 |-> "none", k2 |-> "none",
     p1 |-> <<>>, p2 |-> <<>>]

\* A call keeps the record of the last copy when all of its paths are at or
\* below the copy's dst, or all of them at or below its src.
KeepCopied(paths) ==
    IF copied # NoCopy
       /\ \/ \A p \in paths : IsPrefix(copied.dst, p)
          \/ \A p \in paths : IsPrefix(copied.src, p)
    THEN copied
    ELSE NoCopy

Fits(r) == Cardinality(Reach(r.heap, RootId)) <= MaxNodes

Init ==
    /\ vfsInstance = "null"
    /\ heap = <<>>
    /\ store = NoEntry
    /\ last = NoCall
    /\ copied = NoCopy
    /\ calls = 0
    /\ answer = NoAnswer

\* load(): the tree saved under STORAGE_KEY (found), or null when there is
\* none, when JSON.parse throws, or when deserialize throws on reading a
\* property of null.  (In a browser: window is defined.)
load(st) ==
    IF st \in {NoEntry, Unparseable, JsonNull}
    THEN [found |-> FALSE, heap |-> <<>>]
    ELSE LET saved == deserialize(<<>>, st)
         IN  [found |-> TRUE, heap |-> CollectFrom(saved.heap, saved.id)]

\* Mutant: /sandbox is made whether or not a saved tree was found.
init_alwaysSandbox(st) ==
    LET saved == load(st)
        h0 == [i \in {RootId} |-> DirectoryNode("", <<>>)]
    IN  mkdir(IF saved.found THEN saved.heap ELSE h0, st,
              <<"", "sandbox">>, RootCwd)

\* init(): this.root is the saved tree, or a fresh root with /sandbox made
\* in it.
init(st) ==
    LET saved == load(st)
        h0 == [i \in {RootId} |-> DirectoryNode("", <<>>)]
    IN  IF saved.found
        THEN Result(saved.heap, st, "void")
        ELSE mkdir(h0, st, <<"", "sandbox">>, RootCwd)

\* getVFS(): the instance is made and initialised on first use, and
\* returned as it is afterwards.
getVFS(instance, h, st) ==
    IF instance = "null"
    THEN LET r == init(st)
         IN  [vfsInstance |-> "VirtualFS", heap |-> Collect(r.heap),
              store |-> r.store]
    ELSE [vfsInstance |-> instance, heap |-> h, store |-> st]

GetVFS ==
    /\ LET r == getVFS(vfsInstance, heap, store)
       IN  /\ vfsInstance' = r.vfsInstance
           /\ heap' = r.heap
           /\ store' = r.store
    /\ UNCHANGED <<last, copied, calls, answer>>

\* The page is loaded again: the module-level instance is gone, the entry in
\* localStorage stays.
Reload ==
    /\ vfsInstance = "VirtualFS"
    /\ vfsInstance' = "null"
    /\ heap' = <<>>
    /\ last' = NoCall
    /\ copied' = NoCopy
    /\ answer' = NoAnswer
    /\ UNCHANGED <<store, calls>>

\* The common part of a call that returned r.
Returns(r) ==
    /\ vfsInstance = "VirtualFS"
    /\ calls < MaxCalls
    /\ Fits(r)
    /\ heap' = Collect(r.heap)
    /\ store' = r.store
    /\ calls' = calls + 1
    /\ answer' = NoAnswer
    /\ UNCHANGED vfsInstance

Write ==
    \E path \in PathArgs, content \in Contents, cwd \in CwdArgs :
        LET r == write(heap, store, path, content, cwd)
            parts == resolvePath(path, cwd)
        IN  /\ Returns(r)
            /\ last' = Call1("write", parts, r.ret)
            /\ copied' = KeepCopied({parts})

Mkdir ==
    \E path \in PathArgs, cwd \in CwdArgs :
        LET r == mkdir(heap, store, path, cwd)
            parts == resolvePath(path, cwd)
        IN  /\ Returns(r)
            /\ last' = Call1("mkdir", parts, r.ret)
            /\ copied' = KeepCopied({parts})

Rm ==
    \E path \in PathArgs, cwd \in CwdArgs :
        LET r == rm(heap, store, path, cwd)
            parts == resolvePath(path, cwd)
        IN  /\ Returns(r)
            /\ last' = Call1("rm", parts, r.ret)
            /\ copied' = KeepCopied({parts})

Rmdir ==
    \E path \in PathArgs, cwd \in CwdArgs :
        LET r == rmdir(heap, store, path, cwd)
            parts == resolvePath(path, cwd)
        IN  /\ Returns(r)
            /\ last' = Call1("rmdir", parts, r.ret)
            /\ copied' = KeepCopied({parts})

Mv ==
    \E src \in PathArgs, dst \in PathArgs, cwd \in CwdArgs :
        LET r == mv(heap, store, src, dst, cwd)
            srcParts == resolvePath(src, cwd)
            dstParts == resolvePath(dst, cwd)
        IN  /\ Returns(r)
            /\ last' = Call2("mv", srcParts, dstParts, r.ret)
            /\ copied' = KeepCopied({srcParts, dstParts})

Cp ==
    \E src \in PathArgs, dst \in PathArgs, cwd \in CwdArgs :
        LET r == cp(heap, store, src, dst, cwd)
            srcParts == resolvePath(src, cwd)
            dstParts == resolvePath(dst, cwd)
        IN  /\ Returns(r)
            /\ last' = Call2("cp", srcParts, dstParts, r.ret)
            /\ copied' =
                 IF r.ret = "true"
                 THEN [src |-> srcParts, dst |-> dstParts,
                       apart |-> getParent(heap, dst, cwd)
                                     \notin Reach(heap, getNode(heap, src, cwd))]
                 ELSE NoCopy

\* What a session may find under STORAGE_KEY: nothing, text that is no
\* JSON, "null", objects that are no serialized tree ({"name":"a"},
\* {"type":"directory"}, a file at the top), and serialized trees (the empty
\* root, the root with /sandbox, the root with the file /a).
PersistedValues ==
    {NoEntry, Unparseable, JsonNull,
     [name |-> "a"],
     [type |-> "directory"],
     [type |-> "file", name |-> "a", content |-> "hello"],
     [type |-> "directory", name |-> "", children |-> <<>>],
     [type |-> "directory", name |-> "",
      children |-> <<<<"sandbox", [type |-> "directory", name |-> "sandbox",
                                   children |-> <<>>]>>>>],
     [type |-> "directory", name |-> "",
      children |-> <<<<"a", [type |-> "file", name |-> "a",
                             content |-> "hello"]>>>>]}

\* A session that starts with any of these under STORAGE_KEY.
InitLoad ==
    /\ vfsInstance = "null"
    /\ heap = <<>>
    /\ store \in PersistedValues
    /\ last = NoCall
    /\ copied = NoCopy
    /\ calls = 0
    /\ answer = NoAnswer

Next == GetVFS \/ Reload \/ Write \/ Mkdir \/ Rm \/ Rmdir \/ Mv \/ Cp

Spec == Init /\ [][Next]_vars

SpecLoad == InitLoad /\ [][Next]_vars

----------------------------------------------------------------------------
\* The queries as calls.  The record of a query holds what its path named
\* before the call (kind) and what the call returned (ret).

\* "/", "/sandbox", "a"
SnapshotRoots == {<<"", "">>, <<"", "sandbox">>, <<"a">>}

MaxItemsArgs == {0, 2, DefaultMaxItems}

MaxPreviewArgs == {0, 3, DefaultMaxPreview}

\* The common part of a query that was answered by a.
Asks(a) ==
    /\ vfsInstance = "VirtualFS"
    /\ calls < MaxCalls
    /\ answer' = a
    /\ calls' = calls + 1
    /\ last' = NoCall
    /\ copied' = NoCopy
    /\ UNCHANGED <<vfsInstance, heap, store>>

\* Mutant: a list of a path that names nothing makes the directory.
List_makes ==
    \E path \in PathArgs, cwd \in CwdArgs :
        LET made == mkdir(heap, store, path, cwd)
        IN  /\ vfsInstance = "VirtualFS"
            /\ calls < MaxCalls
            /\ Fits(made)
            /\ answer' = [op |-> "list",
                          kind |-> Kind(heap, resolvePath(path, cwd)),
                          ret |-> list(heap, path, cwd)]
            /\ heap' = Collect(made.heap)
            /\ store' = made.store
            /\ calls' = calls + 1
            /\ last' = NoCall
            /\ copied' = NoCopy
            /\ UNCHANGED vfsInstance

List ==
    \E path \in PathArgs, cwd \in CwdArgs :
        Asks([op |-> "list", kind |-> Kind(heap, resolvePath(path, cwd)),
              ret |-> list(heap, path, cwd)])

Read ==
    \E path \in PathArgs, cwd \in CwdArgs :
        Asks([op |-> "read", kind |-> Kind(heap, resolvePath(path, cwd)),
              ret |-> read(heap, path, cwd)])

Exists ==
    \E path \in PathArgs, cwd \in CwdArgs :
        Asks([op |-> "exists", kind |-> Kind(heap, resolvePath(path, cwd)),
              ret |-> exists(heap, path, cwd)])

IsDirectory ==
    \E path \in PathArgs, cwd \in CwdArgs :
        Asks([op |-> "isDirectory", kind |-> Kind(heap, resolvePath(path, cwd)),
              ret |-> isDirectory(heap, path, cwd)])

IsFile ==
    \E path \in PathArgs, cwd \in CwdArgs :
        Asks([op |-> "isFile", kind |-> Kind(heap, resolvePath(path, cwd)),
              ret |-> isFile(heap, path, cwd)])

GetAbsolutePath ==
    \E path \in PathArgs, cwd \in CwdArgs :
        Asks([op |-> "getAbsolutePath",
              kind |-> Kind(heap, resolvePath(path, cwd)),
              ret |-> getAbsolutePath(path, cwd)])

GetSnapshot ==
    \E rootPath \in SnapshotRoots, maxItems \in MaxItemsArgs,
       maxPreview \in MaxPreviewArgs :
        Asks([op |-> "getSnapshot",
              kind |-> Kind(heap, resolvePath(rootPath, RootCwd)),
              maxItems |-> maxItems, maxPreview |-> maxPreview,
              ret |-> getSnapshot(heap, rootPath, maxItems, maxPreview)])

\* The operands of a cd line: none, or a path.
CdArgs == {<<>>} \cup {<<path>> : path \in PathArgs}

\* executeCommand with a cd line
ExecuteCd ==
    \E args \in CdArgs, cwd \in CwdArgs :
        Asks([op |-> "cd", args |-> args, cwdIn |-> cwd,
              ret |-> executeCommand_cd(heap, args, cwd)])

NextQuery ==
    \/ Next
    \/ List \/ Read \/ Exists \/ IsDirectory \/ IsFile
    \/ GetAbsolutePath \/ GetSnapshot
    \/ ExecuteCd

SpecQuery == Init /\ [][NextQuery]_vars

----------------------------------------------------------------------------
\* resolvePath on its own

\* The segments between the slashes of a path or cwd: a name, '.', '..' or
\* nothing.
Segments == {"a", ".", "..", ""}

RECURSIVE SegmentLists(_)
SegmentLists(n) ==
    IF n = 0 THEN {}
    ELSE SegmentLists(n - 1)
             \cup {<<seg>> : seg \in Segments}
             \cup {Append(p, seg) : p \in SegmentLists(n - 1), seg \in Segments}

\* "./a/../b" in "/x", "/x/b" in "/", "../../../.." in "/a/b", "/" in "/"
ResolveExamples ==
    {[path |-> <<".", "a", "..", "b">>, cwd |-> <<"", "x">>],
     [path |-> <<"", "x", "b">>, cwd |-> <<"", "">>],
     [path |-> <<"..", "..", "..", "..">>, cwd |-> <<"", "a", "b">>],
     [path |-> <<"", "">>, cwd |-> <<"", "">>]}

ResolveArgs ==
    ResolveExamples
        \cup {[path |-> p, cwd |-> c] :
                 p \in SegmentLists(MaxPathSegs), c \in SegmentLists(MaxCwdSegs)}

\* A call of resolvePath(path, cwd) that has not returned yet.
InitResolve ==
    /\ vfsInstance = "null"
    /\ heap = <<>>
    /\ store = NoEntry
    /\ last = NoCall
    /\ copied = NoCopy
    /\ calls = 0
    /\ \E args \in ResolveArgs :
           answer = [op |-> "resolvePath", path |-> args.path,
                     cwd |-> args.cwd, ret |-> Pending]

ResolvePath ==
    /\ answer.op = "resolvePath"
    /\ answer.ret = Pending
    /\ answer' = [answer EXCEPT !.ret = resolvePath(answer.path, answer.cwd)]
    /\ UNCHANGED <<vfsInstance, heap, store, last, copied, calls>>

SpecResolve == InitResolve /\ [][ResolvePath]_vars

----------------------------------------------------------------------------
\* parseCommand on its own

\* The longest line, in characters, that parseCommand is given on its own.
MaxLineLen == 5

\* a blank, a tab, the two quotes and a letter
LineChars == {" ", "\t", "\"", "'", "a"}

RECURSIVE LinesUpTo(_)
LinesUpTo(n) ==
    IF n = 0 THEN {<<>>}
    ELSE LinesUpTo(n - 1)
             \cup {Append(line, char) : line \in LinesUpTo(n - 1),
                                        char \in LineChars}

\* write /sandbox/notes/todo.txt "buy milk"; LS -l; echo "it's" 'a "b"';
\* echo "a b (the quote never closed); two words with a tab between them
ParseExamples ==
    {<<"write", " ", "/", "sandbox", "/", "notes", "/", "todo.txt", " ",
       "\"", "buy", " ", "milk", "\"">>,
     <<"LS", " ", "-l">>,
     <<"echo", " ", "\"", "it", "'", "s", "\"", " ", "'", "a", " ", "\"", "b",
       "\"", "'">>,
     <<"echo", " ", "\"", "a", " ", "b">>,
     <<"mkdir", "\t", "notes">>}

ParseArgs == ParseExamples \cup LinesUpTo(MaxLineLen)

PendingParse == [command |-> Pending, args |-> <<>>]

\* A call of parseCommand(input) that has not returned yet.
InitParse ==
    /\ vfsInstance = "null"
    /\ heap = <<>>
    /\ store = NoEntry
    /\ last = NoCall
    /\ copied = NoCopy
    /\ calls = 0
    /\ \E input \in ParseArgs :
           answer = [op |-> "parseCommand", input |-> input,
                     ret |-> PendingParse]

ParseCommand ==
    /\ answer.op = "parseCommand"
    /\ answer.ret = PendingParse
    /\ answer' = [answer EXCEPT !.ret = parseCommand(answer.input)]
    /\ UNCHANGED <<vfsInstance, heap, store, last, copied, calls>>

SpecParse == InitParse /\ [][ParseCommand]_vars

----------------------------------------------------------------------------
\* The terminal (src/unnamed/part_009): TerminalApp calls initVfs() when it
\* is mounted, keeps the cwd it hands to executeCommand, and sets it to the
\* cwd of every result.

\* The lines typed in a session, at most.
MaxLines == 3

\* The lines typed in a session that follows the script, at most.
MaxScript == 5

TerminalLines ==
    {<<"help">>,
     <<"pwd">>,
     <<"ls">>,
     <<"LS">>,
     <<"ls", " ", "/">>,
     <<"ls", "\t", "/">>,
     <<"cd">>,
     <<"cd", " ", "notes">>,
     <<"cd", " ", "..">>,
     <<"mkdir">>,
     <<"mkdir", " ", "notes">>,
     <<"MkDir", " ", "notes">>,
     <<"rmdir">>,
     <<"rmdir", " ", "/", "sandbox">>,
     <<"rmdir", " ", "todo.txt">>,
     <<"touch">>,
     <<"touch", " ", "todo.txt">>,
     <<"cat">>,
     <<"cat", " ", "todo.txt">>,
     <<"echo", " ", "hello", " ", "'", "big", " ", "world", "'">>,
     <<"write">>,
     <<"write", " ", "todo.txt">>,
     <<"write", " ", "todo.txt", " ", "\"", "buy", " ", "milk", "\"">>,
     <<"read">>,
     <<"read", " ", "todo.txt">>,
     <<"rm">>,
     <<"rm", " ", "todo.txt">>,
     <<"rm", " ", "notes">>,
     <<"mv">>,
     <<"mv", " ", "notes">>,
     <<"mv", " ", "/", "sandbox", " ", "/", "attic">>,
     <<"mv", " ", "/", " ", "notes">>,
     <<"cp">>,
     <<"cp", " ", "todo.txt">>,
     <<"cp", " ", "todo.txt", " ", "copy.txt">>,
     <<"cp", " ", "notes", " ", "docs">>,
     <<"clear">>,
     <<"CLEAR">>,
     <<"foobar">>,
     <<"FooBar", " ", "notes">>,
     <<"\"", "\"">>}

\* mkdir /sandbox/notes, write /sandbox/notes/todo.txt "buy milk",
\* cd /sandbox/notes, ls, cat todo.txt
Script ==
    <<<<"mkdir", " ", "/", "sandbox", "/", "notes">>,
      <<"write", " ", "/", "sandbox", "/", "notes", "/", "todo.txt", " ",
        "\"", "buy", " ", "milk", "\"">>,
      <<"cd", " ", "/", "sandbox", "/", "notes">>,
      <<"ls">>,
      <<"cat", " ", "todo.txt">>>>

ScriptLines ==
    {Script[i] : i \in 1..Len(Script)}
        \cup {<<"ls", " ", "/", "sandbox">>,
              <<"cd", " ", "..">>,
              <<"rm", " ", "todo.txt">>}

\* const [cwd, setCwd] = useState('/sandbox'), and setCwd(result.cwd)
TerminalCwd ==
    IF answer.op = "executeCommand" THEN answer.cwd ELSE <<"", "sandbox">>

\* How many lines of the script the session has followed from its start.
Followed == IF answer.op = "executeCommand" THEN answer.script ELSE 0

\* handleCommand(cmd): nothing for a blank line; a throw inside
\* executeCommand leaves the cwd as it was.  The record of the command holds
\* what its first operand named before it ran (kind).
HandleCommand(cmd) ==
    \E cwd \in {TerminalCwd} :
    \E vfs \in {getVFS(vfsInstance, heap, store)} :
    \E r \in {executeCommand(vfs.heap, vfs.store, cmd, cwd)} :
    \E args \in {parseCommand(cmd).args} :
        /\ vfsInstance = "VirtualFS"
        /\ trim(cmd) # <<>>
        /\ Fits(r)
        /\ vfsInstance' = vfs.vfsInstance
        /\ heap' = Collect(r.heap)
        /\ store' = r.store
        /\ calls' = calls + 1
        /\ last' = NoCall
        /\ copied' = NoCopy
        /\ answer' = [op |-> "executeCommand", input |-> cmd, cwdIn |-> cwd,
                      kind |-> IF args # <<>>
                               THEN Kind(vfs.heap, resolvePath(args[1], cwd))
                               ELSE "none",
                      ret |-> r.ret,
                      cwd |-> IF r.ret = RangeError THEN cwd ELSE r.ret.cwd,
                      script |-> IF Followed = calls /\ calls < Len(Script)
                                    /\ cmd = Script[calls + 1]
                                 THEN calls + 1
                                 ELSE Followed]

Terminal ==
    \E cmd \in TerminalLines : calls < MaxLines /\ HandleCommand(cmd)

Scripted ==
    \E cmd \in ScriptLines : calls < MaxScript /\ HandleCommand(cmd)

NextTerminal == GetVFS \/ Terminal

SpecTerminal == Init /\ [][NextTerminal]_vars

NextScript == GetVFS \/ Scripted

SpecScript == Init /\ [][NextScript]_vars

----------------------------------------------------------------------------
\* Observations of the tree used by the properties below

Ready == vfsInstance = "VirtualFS"

Called == calls' = calls + 1

\* The <<parent, position>> pairs under which node n is held.
Holders(h, n) ==
    UNION {{<<p, i>> : i \in {j \in 1..Len(h[p].children) :
                                 h[p].children[j][2] = n}} :
           p \in {q \in DOMAIN h : h[q].type = "directory"}}

Descendants(h, n) == ReachFrom(h, ChildIds(h, n), ChildIds(h, n))

\* "/a/b" for the resolved path <<"a", "b">>
Absolute(parts) == <<"">> \o parts

\* Existence, type and file content of what a resolved path names.
ShallowAt(h, parts) ==
    LET node == WalkFrom(h, RootId, parts)
    IN  IF node = Null THEN [type |-> "none", content |-> ""]
        ELSE IF h[node].type = "file"
        THEN [type |-> "file", content |-> h[node].content]
        ELSE [type |-> "directory", content |-> ""]

RECURSIVE PathView(_, _, _)
RECURSIVE PathViewEntries(_, _, _)

\* Existence, type and content of every path at or below a node: the keys
\* under which children are held, in order, with what they lead to.
PathView(h, node, onStack) ==
    IF node = Null THEN [type |-> "none"]
    ELSE IF node \in onStack THEN [type |-> "cycle"]
    ELSE IF h[node].type = "file"
    THEN [type |-> "file", content |-> h[node].content]
    ELSE [type |-> "directory",
          entries |-> PathViewEntries(h, h[node].children, onStack \cup {node})]

PathViewEntries(h, entries, onStack) ==
    [i \in 1..Len(entries) |->
        <<entries[i][1], PathView(h, entries[i][2], onStack)>>]

SubtreeAt(h, parts) == PathView(h, WalkFrom(h, RootId, parts), {})

\* The resolved paths that can name something in a heap of MaxNodes objects
\* without passing through the same object twice, and one segment more.
RECURSIVE PartsUpTo(_)
PartsUpTo(n) ==
    IF n = 0 THEN {<<>>}
    ELSE LET shorter == PartsUpTo(n - 1)
         IN  shorter \cup {Append(p, name) : p \in shorter, name \in Names}

AllParts == PartsUpTo(MaxNodes)

----------------------------------------------------------------------------
\* C1: after any sequence of VFS calls the node graph reachable from the
\* root is a tree: no directory is its own descendant, the root is held by
\* no directory and every other node is held by exactly one parent under
\* exactly one name.
C1_ReachableGraphIsTree ==
    Ready =>
        \A n \in DOMAIN heap :
            /\ n \notin Descendants(heap, n)
            /\ Cardinality(Holders(heap, n)) = (IF n = RootId THEN 0 ELSE 1)

\* C2: the root cannot be removed, renamed or replaced: it stays a directory
\* with the empty name that no directory holds, and a call that names the
\* root as the rm target, the mv source or the write target returns false.
C2_RootKept ==
    Ready =>
        /\ heap[RootId].type = "directory"
        /\ heap[RootId].name = ""
        /\ Holders(heap, RootId) = {}
        /\ (last.op \in {"rm", "rmdir", "mv", "write"} /\ last.k1 = "root")
               => last.ret = "false"

\* C3: write to a path that names a directory returns false and leaves the
\* directory in place, mkdir through or onto a file returns false and leaves
\* the file in place, and no call changes the type of an existing name.
C3_TypeConflictFails ==
    [][Called =>
        /\ (last'.op = "write" /\ last'.k1 \in {"empty directory", "directory"})
               => (last'.ret = "false" /\ heap' = heap)
        /\ (last'.op = "mkdir" /\ last'.k1 \in {"file", "below file"})
               => (last'.ret = "false" /\ heap' = heap)
        /\ \A p \in AllParts :
               (ShallowAt(heap, p).type # "none"
                   /\ ShallowAt(heap', p).type # "none")
                   => ShallowAt(heap', p).type = ShallowAt(heap, p).type]_vars

\* C4: every call that returns true leaves the persisted entry equal to the
\* serialization of the tree after the call, and every call that returns
\* false leaves the persisted entry as it was.
C4_PersistedAfterEveryCall ==
    [][Called =>
        /\ last'.ret = "true" => store' = serialize(heap', RootId, {})
        /\ last'.ret = "false" => store' = store]_vars

\* C5: serialize terminates on every tree the calls build, and
\* deserialize(serialize(tree)) has the same names, types, contents and
\* child order as the tree.
C5_RoundTrip ==
    Ready =>
        LET data == serialize(heap, RootId, {})
            loaded == deserialize(<<>>, data)
        IN  /\ data # RangeError
            /\ CollectFrom(loaded.heap, loaded.id) = heap

----------------------------------------------------------------------------
Existing == {"file", "empty directory", "directory"}

\* C6: mv returns false when dst already exists (a file, a directory or the
\* root), and then the tree and the persisted entry are as before the call.
C6_MvCollisionChangesNothing ==
    [][(Called /\ last'.op = "mv" /\ last'.k2 \in Existing \cup {"root"})
          => (last'.ret = "false" /\ heap' = heap /\ store' = store)]_vars

\* An mv of an existing node onto an existing node has been refused.
C6_Witness ==
    /\ last.op = "mv"
    /\ last.k1 \in Existing
    /\ last.k2 \in Existing
    /\ last.ret = "false"

\* C7: whenever mv returns true, the node that was at src is reachable at
\* dst with dst's final segment as its name and with the content or subtree
\* it had, src no longer resolves, and every other path resolves as before.
C7_MvMovesNode ==
    [][(Called /\ last'.op = "mv" /\ last'.ret = "true") =>
          LET moved == WalkFrom(heap', RootId, last'.p2)
          IN  /\ moved # Null
              /\ heap'[moved].name = LastOf(last'.p2)
              /\ SubtreeAt(heap', last'.p2) = SubtreeAt(heap, last'.p1)
              /\ ShallowAt(heap', last'.p1).type = "none"
              /\ \A p \in AllParts :
                     (~IsPrefix(last'.p1, p) /\ ~IsPrefix(last'.p2, p))
                         => ShallowAt(heap', p) = ShallowAt(heap, p)]_vars

\* A call that follows a copy and is not itself a copy: when it is applied at
\* or below dst the paths at or below src are as before, and when it is
\* applied at or below src the subtree at dst is as before.
OriginalAndCopyKept ==
    LET paths == IF last'.op = "mv" THEN {last'.p1, last'.p2} ELSE {last'.p1}
        srcKept == SubtreeAt(heap', copied.src) = SubtreeAt(heap, copied.src)
        dstKept == SubtreeAt(heap', copied.dst) = SubtreeAt(heap, copied.dst)
    IN  IF last'.ret = "true"
        THEN /\ (\A p \in paths : IsPrefix(copied.dst, p)) => srcKept
             /\ (\A p \in paths : IsPrefix(copied.src, p)) => dstKept
        ELSE srcKept /\ dstKept

AfterCopy == Called /\ copied # NoCopy /\ copied' = copied /\ last'.op # "cp"

C9_RmNonEmptyFails ==
    [][(Called /\ last'.op = "rm"
           /\ \/ last'.k1 = "directory"
              \/ last'.k1 = "root" /\ Len(heap[RootId].children) > 0)
          => (last'.ret = "false" /\ heap' = heap /\ store' = store)]_vars

\* An rm of a directory with a child has been refused.
C9_Witness ==
    /\ last.op = "rm"
    /\ last.k1 = "directory"
    /\ last.ret = "false"

\* A mkdir that returned what the claim says: every segment of the path is a
\* directory afterwards, everything that existed is kept, and the same call
\* made again returns true and leaves the tree and the entry as they are.
MkdirDone ==
    /\ last'.ret = "true"
    /\ \A i \in 1..Len(last'.p1) :
           ShallowAt(heap', SubSeq(last'.p1, 1, i)).type = "directory"
    /\ \A p \in AllParts :
           ShallowAt(heap, p).type # "none"
               => ShallowAt(heap', p) = ShallowAt(heap, p)
    /\ LET again == mkdir(heap', store', Absolute(last'.p1), RootCwd)
       IN  /\ again.ret = "true"
           /\ Collect(again.heap) = heap'
           /\ again.store = store'

\* C10 (as stated): for any path whose existing segments are all
\* directories, mkdir returns true, creates the missing directories, and is
\* idempotent.
C10_MkdirIdempotent ==
    [][(Called /\ last'.op = "mkdir"
           /\ last'.k1 \in {"root", "missing", "empty directory", "directory"})
          => MkdirDone]_vars

\* C10 (amended): the same, for any path that resolves to at least one
\* segment.
C10_MkdirIdempotentBelowRoot ==
    [][(Called /\ last'.op = "mkdir"
           /\ last'.k1 \in {"missing", "empty directory", "directory"})
          => MkdirDone]_vars

\* The first call made is a mkdir of a three-segment path below /sandbox,
\* which created the two missing directories.
C10_Witness ==
    /\ calls = 1
    /\ last.op = "mkdir"
    /\ last.k1 = "missing"
    /\ last.ret = "true"
    /\ Len(last.p1) = 3
    /\ Cardinality(DOMAIN heap) = 4

----------------------------------------------------------------------------
\* C11: mkdir returns false if an existing segment along the resolved path
\* is a file, and a mkdir that returns false has created no directory: the
\* tree and the persisted entry are as before the call.
C11_MkdirFailsWhole ==
    [][(Called /\ last'.op = "mkdir") =>
          /\ last'.k1 \in {"file", "below file"} => last'.ret = "false"
          /\ last'.ret = "false" => (heap' = heap /\ store' = store)]_vars

\* A mkdir of a path that leads through a file has been refused.
C11_Witness ==
    /\ last.op = "mkdir"
    /\ last.k1 = "below file"
    /\ last.ret = "false"

\* The directories: what Kind says of a path that names one.
Directories == {"root", "empty directory", "directory"}

\* C12: for any path whose parent resolves to an existing directory and any
\* content, write returns true and a read that follows at once returns
\* exactly that content; a second write to the same path replaces the
\* content, so that read returns the value written last.
C12_WriteThenRead ==
    Ready =>
        \A path \in PathArgs, cwd \in CwdArgs, c1 \in Contents, c2 \in Contents :
            LET parts == resolvePath(path, cwd)
                w1 == write(heap, store, path, c1, cwd)
                w2 == write(w1.heap, w1.store, path, c2, cwd)
            IN  (Len(parts) > 0 /\ Kind(heap, Pop(parts)) \in Directories)
                    => /\ w1.ret = "true"
                       /\ read(w1.heap, path, cwd) = Str(c1)
                       /\ w2.ret = "true"
                       /\ read(w2.heap, path, cwd) = Str(c2)

\* C13: write returns false when the parent of the resolved path does not
\* exist or is a file, or when the path resolves to the root; it then makes
\* no directory and leaves the tree and the persisted entry as they were.
C13_WriteFailsWhole ==
    Ready =>
        \A path \in PathArgs, cwd \in CwdArgs, content \in Contents :
            LET parts == resolvePath(path, cwd)
            IN  (Len(parts) = 0 \/ Kind(heap, Pop(parts)) \notin Directories)
                    => write(heap, store, path, content, cwd)
                           = Result(heap, store, "false")

\* A write below a file has been refused.
C13_Witness ==
    /\ last.op = "write"
    /\ last.k1 = "below file"
    /\ last.ret = "false"

----------------------------------------------------------------------------
\* A serialized node as serialize writes it, and a serialized tree: a
\* serialized directory.
RECURSIVE WellFormedNode(_)
WellFormedNode(data) ==
    \/ /\ DOMAIN data = {"type", "name", "content"}
       /\ data.type = "file"
    \/ /\ DOMAIN data = {"type", "name", "children"}
       /\ data.type = "directory"
       /\ \A i \in 1..Len(data.children) : WellFormedNode(data.children[i][2])

WellFormedTree(data) ==
    WellFormedNode(data) /\ data.type = "directory"

\* The root with the empty directory sandbox as its only child.
FreshTree ==
    [i \in {0, 1} |->
        IF i = 0
        THEN [type |-> "directory", name |-> "", children |-> <<<<"sandbox", 1>>>>]
        ELSE [type |-> "directory", name |-> "sandbox", children |-> <<>>]]

FirstUse == vfsInstance = "null" /\ vfsInstance' = "VirtualFS"

\* C14: for every persisted value that is absent, is not parseable or is not
\* a well-formed serialized directory tree, the tree after init is the root
\* with the empty directory sandbox as its only child.
C14_CorruptEntryReinitialises ==
    [][(FirstUse /\ ~WellFormedTree(store)) => heap' = FreshTree]_vars

\* What serialize writes for FreshTree.
FreshEntry ==
    [type |-> "directory", name |-> "",
     children |-> <<<<"sandbox", [type |-> "directory", name |-> "sandbox",
                                  children |-> <<>>]>>>>]

\* C15: when no persisted entry exists, init yields the root with the single
\* empty directory /sandbox and persists it; when an entry written by an
\* earlier session exists, init yields exactly the tree that entry holds (no
\* /sandbox is made again) and writes nothing; and once the instance exists,
\* getVFS returns it as it is, without reading the store again.
C15_HydrationAtStart ==
    [][/\ FirstUse =>
              IF store = NoEntry
              THEN heap' = FreshTree /\ store' = FreshEntry
              ELSE serialize(heap', RootId, {}) = store /\ store' = store
       /\ Ready' =>
              getVFS(vfsInstance', heap', store')
                  = [vfsInstance |-> vfsInstance', heap |-> heap',
                     store |-> store']]_vars

\* A later session has started from an entry in which /sandbox had been
\* removed.
C15_Witness ==
    /\ Ready
    /\ calls > 0
    /\ last = NoCall
    /\ ~MapHas(heap[RootId].children, "sandbox")
    /\ serialize(heap, RootId, {}) = store

----------------------------------------------------------------------------
Resolved == answer.op = "resolvePath" /\ answer.ret # Pending

\* C16: resolvePath returns, for every path and cwd, a list with no empty,
\* '.' or '..' segment; a path that starts with '/' ignores cwd; a '..' with
\* nothing left to pop is dropped; the empty path resolves to the normalized
\* cwd; the absolute path made of the result resolves to the result; and
\* resolve("./a/../b", "/x") = resolve("/x/b", "/") and
\* resolve("../../../..", "/a/b") = resolve("/", "/").
C16_ResolveCanonical ==
    Resolved =>
        LET path == answer.path
            cwd == answer.cwd
            ret == answer.ret
            absolute == Len(path) >= 2 /\ path[1] = ""
        IN  /\ \A i \in 1..Len(ret) : ret[i] \notin {"", ".", ".."}
            /\ absolute =>
                   \A other \in SegmentLists(MaxCwdSegs) :
                       resolvePath(path, other) = ret
            /\ (absolute /\ path[2] = "..") =>
                   ret = resolvePath(IF Len(path) = 2 THEN <<"", "">>
                                     ELSE <<"">> \o SubSeq(path, 3, Len(path)),
                                     cwd)
            /\ path = <<"">> => ret = resolvePath(cwd, RootCwd)
            /\ \A other \in SegmentLists(MaxCwdSegs) :
                   resolvePath(getAbsolutePath(path, cwd), other) = ret
            /\ (path = <<".", "a", "..", "b">> /\ cwd = <<"", "x">>)
                   => ret = <<"x", "b">>
            /\ (path = <<"", "x", "b">> /\ cwd = <<"", "">>)
                   => ret = <<"x", "b">>
            /\ (path = <<"..", "..", "..", "..">> /\ cwd = <<"", "a", "b">>)
                   => ret = <<>>
            /\ (path = <<"", "">> /\ cwd = <<"", "">>) => ret = <<>>

\* "../../../.." has been resolved in "/a/b".
C16_Witness ==
    /\ Resolved
    /\ answer.path = <<"..", "..", "..", "..">>
    /\ answer.cwd = <<"", "a", "b">>
    /\ answer.ret = <<>>

----------------------------------------------------------------------------
\* C17: list returns the immediate children of the node, in insertion order,
\* when the path resolves to a directory; the file itself, alone, when it
\* resolves to a file; and the empty array when the path does not resolve.
C17_ListByKind ==
    Ready =>
        \A path \in PathArgs, cwd \in CwdArgs :
            LET parts == resolvePath(path, cwd)
                node == WalkFrom(heap, RootId, parts)
                kind == Kind(heap, parts)
                ret == list(heap, path, cwd)
            IN  /\ kind \in Directories =>
                       /\ Len(ret) = Len(heap[node].children)
                       /\ \A i \in 1..Len(ret) :
                              /\ ret[i] = heap[node].children[i][2]
                              /\ ret[i] = WalkFrom(heap, RootId,
                                              Append(parts, heap[node].children[i][1]))
                /\ kind = "file" => ret = <<node>>
                /\ kind \in {"missing", "below file"} => ret = <<>>

\* A directory with two children has been listed.
C17_Witness ==
    /\ answer.op = "list"
    /\ answer.kind = "directory"
    /\ Len(answer.ret) = 2

----------------------------------------------------------------------------
Queries ==
    {"list", "read", "exists", "isDirectory", "isFile", "getAbsolutePath",
     "getSnapshot"}

\* What Kind says of a path that does not resolve.
NotResolving == {"missing", "below file"}

\* C18: list, read, exists, isDirectory, isFile, getAbsolutePath and
\* getSnapshot leave the tree and the persisted entry as they were; exists,
\* isDirectory and isFile return false and read returns null when the path
\* does not resolve, and read returns null for a directory.
C18_QueriesPure ==
    [][(Called /\ answer'.op \in Queries) =>
          /\ heap' = heap
          /\ store' = store
          /\ (answer'.op \in {"exists", "isDirectory", "isFile"}
                 /\ answer'.kind \in NotResolving)
                 => answer'.ret = FALSE
          /\ (answer'.op = "read"
                 /\ answer'.kind \in NotResolving \cup Directories)
                 => answer'.ret = NullStr]_vars

\* A directory has been read.
C18_Witness ==
    /\ answer.op = "read"
    /\ answer.kind = "empty directory"
    /\ answer.ret = NullStr

----------------------------------------------------------------------------
\* How many levels below rootPath the entry with this path lies.
Levels(rootPath, path) ==
    IF path = rootPath THEN 0
    ELSE IF rootPath = <<"", "">> THEN Len(path) - 1
    ELSE Len(path) - Len(rootPath)

\* C19: getSnapshot terminates on every tree the calls build and returns at
\* most maxItems entries, none of them more than 10 levels below rootPath,
\* every file preview of at most maxPreview characters, and the empty list
\* when rootPath does not resolve.
C19_SnapshotCapped ==
    Ready =>
        \A rootPath \in SnapshotRoots, maxItems \in MaxItemsArgs,
           maxPreview \in MaxPreviewArgs :
            LET snapshot == getSnapshot(heap, rootPath, maxItems, maxPreview)
                kind == Kind(heap, resolvePath(rootPath, RootCwd))
            IN  /\ Len(snapshot) <= maxItems
                /\ \A i \in 1..Len(snapshot) :
                       /\ Levels(rootPath, snapshot[i].path) <= MaxDepth
                       /\ snapshot[i].type = "file"
                              => StrLen(snapshot[i].preview) <= maxPreview
                /\ kind \in NotResolving => snapshot = <<>>

\* A snapshot has been taken of a tree that is nested deeper than 10 levels,
\* and it holds an entry of the tenth level.
C19_Witness ==
    /\ answer.op = "getSnapshot"
    /\ Len(answer.ret) <= answer.maxItems
    /\ \E i \in 1..Len(answer.ret) : Len(answer.ret[i].path) > MaxDepth

----------------------------------------------------------------------------
\* C20: a cd line changes cwd only if the target resolves to an existing
\* directory: then there is no output line and the new cwd is the canonical
\* absolute path of the target; otherwise the cwd returned is the one given
\* and there is exactly one (error) line.  With no operand the target is
\* /sandbox.  The tree and the persisted entry are never changed.
C20_CdOnlyToDirectory ==
    [][(Called /\ answer'.op = "cd") =>
          LET args == answer'.args
              cwd == answer'.cwdIn
              ret == answer'.ret
              target == IF args = <<>> THEN <<"", "sandbox">> ELSE args[1]
              parts == resolvePath(target, cwd)
          IN  /\ heap' = heap
              /\ store' = store
              /\ IF Kind(heap, parts) \in Directories
                 THEN /\ ret.output = <<>>
                      /\ ret.cwd = IF parts = <<>> THEN <<"", "">>
                                   ELSE <<"">> \o parts
                 ELSE /\ ret.cwd = cwd
                      /\ Len(ret.output) = 1]_vars

\* A cd line has changed the cwd to /sandbox/a.
C20_Witness ==
    /\ answer.op = "cd"
    /\ answer.args # <<>>
    /\ answer.ret.output = <<>>
    /\ answer.ret.cwd = <<"", "sandbox", "a">>

----------------------------------------------------------------------------
\* The names of the dispatch table: the case labels of executeCommand.
DispatchTable ==
    {<<"help">>, <<"pwd">>, <<"ls">>, <<"cd">>, <<"mkdir">>, <<"rmdir">>,
     <<"touch">>, <<"cat">>, <<"echo">>, <<"write">>, <<"read">>, <<"rm">>,
     <<"mv">>, <<"cp">>, <<"clear">>}

\* Two lines that differ at most in the letter case of their first word.
SameButCase(cmd, other) ==
    /\ Len(cmd) = Len(other)
    /\ LowerCase(cmd[1]) = LowerCase(other[1])
    /\ \A i \in 2..Len(cmd) : cmd[i] = other[i]

\* C21: a line whose lower-cased first token is none of the fifteen names of
\* the dispatch table is answered by the one line '<lower-cased token>:
\* command not found', with the cwd it was given and with the tree and the
\* persisted entry as they were; a line whose first token is a name of the
\* table in any letter case is not answered so, and is answered exactly as
\* the same line with the name in another letter case.
C21_UnknownCommandNotFound ==
    Ready =>
        \A cmd \in TerminalLines :
            LET parsed == parseCommand(cmd)
                r == executeCommand(heap, store, cmd, TerminalCwd)
                notFound == [output |-> <<<<parsed.command,
                                            ": command not found">>>>,
                             cwd |-> TerminalCwd]
            IN  /\ (parsed.command # EmptyString
                      /\ parsed.command \notin DispatchTable)
                    => r = Result(heap, store, notFound)
                /\ parsed.command \in DispatchTable
                    => /\ r.ret # notFound
                       /\ \A other \in TerminalLines :
                              SameButCase(cmd, other)
                                  => executeCommand(heap, store, other,
                                                    TerminalCwd) = r

\* FooBar notes, typed where notes is a directory, was answered by
\* 'foobar: command not found'.
C21_Witness ==
    /\ answer.op = "executeCommand"
    /\ answer.input = <<"FooBar", " ", "notes">>
    /\ answer.kind = "empty directory"
    /\ answer.ret = [output |-> <<<<<<"foobar">>, ": command not found">>>>,
                     cwd |-> answer.cwdIn]

----------------------------------------------------------------------------
\* The commands that ask for operands, and how many they ask for.
NeedOperands ==
    {<<"mkdir">>, <<"rmdir">>, <<"touch">>, <<"cat">>, <<"read">>, <<"rm">>,
     <<"write">>, <<"mv">>, <<"cp">>}

OperandsRequired(command) ==
    IF command \in {<<"write">>, <<"mv">>, <<"cp">>} THEN 2 ELSE 1

\* A line of NeedOperands with fewer operands than its command asks for.
LacksOperands(cmd) ==
    LET parsed == parseCommand(cmd)
    IN  /\ parsed.command \in NeedOperands
        /\ Len(parsed.args) < OperandsRequired(parsed.command)

\* C22 as stated: each of mkdir, rmdir, touch, cat, read, rm, write, mv and
\* cp, given fewer operands than it asks for, answers with the one line
\* '<cmd>: missing operand', the cwd it was given, and the tree and the
\* persisted entry as they were.
C22_MissingOperand ==
    Ready =>
        \A cmd \in TerminalLines :
            LacksOperands(cmd)
                => executeCommand(heap, store, cmd, TerminalCwd)
                       = Result(heap, store,
                                [output |-> <<<<Text(parseCommand(cmd).command)
                                                   \o ": missing operand">>>>,
                                 cwd |-> TerminalCwd])

\* The one line that answers a command given too few operands.
OperandLine(command) ==
    CASE command = <<"write">> -> "write: usage: write <file> <content>"
      [] command = <<"mv">> -> "mv: usage: mv <src> <dst>"
      [] command = <<"cp">> -> "cp: usage: cp <src> <dst>"
      [] OTHER -> Text(command) \o ": missing operand"

\* C22, amended: each of mkdir, rmdir, touch, cat, read and rm without an
\* operand answers with the one line '<cmd>: missing operand', and each of
\* write, mv and cp with fewer than two operands answers with its one usage
\* line; the cwd is the one given, and the tree and the persisted entry are
\* as they were.
C22_MissingOperandOrUsage ==
    Ready =>
        \A cmd \in TerminalLines :
            LacksOperands(cmd)
                => executeCommand(heap, store, cmd, TerminalCwd)
                       = Result(heap, store,
                                [output |->
                                     <<<<OperandLine(parseCommand(cmd).command)>>>>,
                                 cwd |-> TerminalCwd])

\* write todo.txt, typed where todo.txt is a file, was answered by the usage
\* line of write.
C22_Witness ==
    /\ answer.op = "executeCommand"
    /\ answer.input = <<"write", " ", "todo.txt">>
    /\ answer.kind = "file"
    /\ answer.ret = [output |-> <<<<"write: usage: write <file> <content>">>>>,
                     cwd |-> answer.cwdIn]

----------------------------------------------------------------------------
\* The tokens of a line as C23 words them: outside quotes a whitespace
\* character ends the token that is buffered; a quote opens a region that
\* the same quote closes, and every other character of the region is kept;
\* what is buffered at the end of the line is the last token.
RECURSIVE TokensAsStated(_, _, _, _)
TokensAsStated(chars, tokens, buffered, quote) ==
    LET flushed == IF buffered # EmptyString
                   THEN Append(tokens, buffered)
                   ELSE tokens
    IN  IF chars = <<>> THEN flushed
        ELSE LET char == Head(chars)
                 rest == Tail(chars)
             IN  IF quote = ""
                 THEN IF char \in {"'", "\""}
                      THEN TokensAsStated(rest, tokens, buffered, char)
                      ELSE IF char \in WhiteSpace
                      THEN TokensAsStated(rest, flushed, EmptyString, "")
                      ELSE TokensAsStated(rest, tokens,
                                          AppendChar(buffered, char), "")
                 ELSE IF char = quote
                      THEN TokensAsStated(rest, tokens, buffered, "")
                      ELSE TokensAsStated(rest, tokens,
                                          AppendChar(buffered, char), quote)

\* C23: parseCommand returns the tokens of the line, split on whitespace
\* (a blank or a tab) outside quotes, with quoted regions kept whole and an
\* unclosed region flushed at the end of the line: the first token
\* lower-cased as the command, the others in order as the arguments.
C23_Tokenizer ==
    (answer.op = "parseCommand" /\ answer.ret # PendingParse)
        => LET tokens == TokensAsStated(answer.input, <<>>, EmptyString, "")
           IN  answer.ret =
                   IF tokens = <<>>
                   THEN [command |-> EmptyString, args |-> <<>>]
                   ELSE [command |-> toLowerCase(tokens[1]),
                         args |-> Tail(tokens)]

----------------------------------------------------------------------------
\* The session so far is the first n lines of the script, typed on the
\* freshly initialised tree from the cwd /sandbox.
FollowedScript(n) ==
    answer.op = "executeCommand" /\ answer.script = n /\ calls = n

\* C24: after mkdir /sandbox/notes, write /sandbox/notes/todo.txt "buy milk"
\* and cd /sandbox/notes the cwd is /sandbox/notes; the ls that follows
\* returns the one line of todo.txt, with the file marker and no '/' at its
\* end, and the cat todo.txt after it returns the one line 'buy milk'.  The
\* lines of any ls are the entries listed, in order: a directory with the
\* directory marker and a '/' at its end, a file with the file marker and
\* nothing at its end.
C24_Scenario ==
    /\ FollowedScript(3) => answer.cwd = <<"", "sandbox", "notes">>
    /\ FollowedScript(4)
        => /\ answer.cwd = <<"", "sandbox", "notes">>
           /\ answer.ret.output = <<<<PagePrefix, " ", "todo.txt", "">>>>
    /\ FollowedScript(5)
        => /\ answer.cwd = <<"", "sandbox", "notes">>
           /\ answer.ret.output = <<<<"buy milk">>>>
    /\ (answer.op = "executeCommand"
          /\ parseCommand(answer.input).command = <<"ls">>)
        => LET args == parseCommand(answer.input).args
               nodes == list(heap, IF args # <<>> THEN args[1] ELSE <<".">>,
                             answer.cwdIn)
               output == answer.ret.output
           IN  /\ Len(output) = Len(nodes)
               /\ \A i \in 1..Len(nodes) :
                      output[i] =
                          IF heap[nodes[i]].type = "directory"
                          THEN <<FolderPrefix, " ", heap[nodes[i]].name, "/">>
                          ELSE <<PagePrefix, " ", heap[nodes[i]].name, "">>

\* The five lines of the script were typed, and the last was answered by
\* 'buy milk'.
C24_Witness ==
    /\ FollowedScript(5)
    /\ answer.input = <<"cat", " ", "todo.txt">>
    /\ answer.ret.output = <<<<"buy milk">>>>

----------------------------------------------------------------------------
\* result.clear, as handleCommand tests it
ClearSet(ret) == HasField(ret, "clear") /\ ret.clear

\* C25: a clear line returns the clear flag set, no output line and the cwd
\* it was given, with the tree and the persisted entry as they were; no other
\* line returns the clear flag set.
C25_ClearOnly ==
    Ready =>
        \A cmd \in TerminalLines :
            LET r == executeCommand(heap, store, cmd, TerminalCwd)
            IN  IF parseCommand(cmd).command = <<"clear">>
                THEN r = Result(heap, store,
                                [output |-> <<>>, cwd |-> TerminalCwd,
                                 clear |-> TRUE])
                ELSE ~ClearSet(r.ret)

\* clear was typed in /sandbox/notes, after notes was made and entered.
C25_Witness ==
    /\ answer.op = "executeCommand"
    /\ answer.input = <<"clear">>
    /\ answer.cwdIn = <<"", "sandbox", "notes">>
    /\ ClearSet(answer.ret)
    /\ answer.ret.output = <<>>
    /\ answer.cwd = answer.cwdIn

----------------------------------------------------------------------------
\* C26: in a session that starts in /sandbox on the freshly initialised
\* tree, after any sequence of lines the cwd of the terminal is the canonical
\* absolute path of a directory that is in the tree.
C26_CwdIsDirectory ==
    Ready =>
        /\ TerminalCwd = getAbsolutePath(TerminalCwd, RootCwd)
        /\ isDirectory(heap, TerminalCwd, RootCwd)

----------------------------------------------------------------------------
\* C27: in every tree the program reaches, by mv, cp and reloads included,
\* the name of every node that a directory holds is the key under which the
\* directory holds it, so that the name ls prints for an entry of a
\* directory leads from that directory to the entry.
C27_NameIsKey ==
    Ready =>
        \A d \in Reach(heap, RootId) :
            heap[d].type = "directory"
                => \A i \in 1..Len(heap[d].children) :
                       LET key == heap[d].children[i][1]
                           node == heap[d].children[i][2]
                       IN  /\ heap[node].name = key
                           /\ MapGet(heap[d].children, heap[node].name) = node

----------------------------------------------------------------------------
\* The resolved paths of at most n segments that lead from a node to
\* something.
RECURSIVE PathsFrom(_, _, _)
PathsFrom(h, node, n) ==
    IF n = 0 \/ h[node].type # "directory" THEN {<<>>}
    ELSE {<<>>} \cup
         UNION {{<<h[node].children[i][1]>> \o p :
                     p \in PathsFrom(h, h[node].children[i][2], n - 1)} :
                i \in 1..Len(h[node].children)}

\* C28: whenever cp(src, dst, cwd) returns true, dst names a node with dst's
\* last segment as its name whose subtree is, in structure and content, the
\* subtree that src named before the call, the copy is not below itself
\* (also when dst lies inside the subtree of src), and every path that is
\* not at or below dst names what it named before.
C28_CopyEqualsSource ==
    Ready =>
        \A src \in PathArgs, dst \in PathArgs, cwd \in CwdArgs :
            LET r == cp(heap, store, src, dst, cwd)
                srcParts == resolvePath(src, cwd)
                dstParts == resolvePath(dst, cwd)
                copy == WalkFrom(r.heap, RootId, dstParts)
            IN  r.ret = "true"
                    => /\ copy # Null
                       /\ r.heap[copy].name = LastOf(dstParts)
                       /\ SubtreeAt(r.heap, dstParts) = SubtreeAt(heap, srcParts)
                       /\ copy \notin Descendants(r.heap, copy)
                       /\ \A p \in PathsFrom(heap, RootId, MaxNodes + 1)
                                      \cup PathsFrom(r.heap, RootId, MaxNodes + 1) :
                              ~IsPrefix(dstParts, p)
                                  => ShallowAt(r.heap, p) = ShallowAt(heap, p)

----------------------------------------------------------------------------
\* C29: touch path is executed as write(path, '', cwd): the tree and the
\* persisted entry are left as that call leaves them; where the path names
\* nothing below a directory, or names a file, the line succeeds without
\* output, the path then names a file with the empty content, and a cat of
\* the path that follows returns one empty line.
C29_TouchWritesEmpty ==
    Ready =>
        \A cmd \in TerminalLines :
            LET parsed == parseCommand(cmd)
                cwd == TerminalCwd
            IN  (parsed.command = <<"touch">> /\ parsed.args # <<>>)
                    => LET path == parsed.args[1]
                           kind == Kind(heap, resolvePath(path, cwd))
                           r == executeCommand(heap, store, cmd, cwd)
                           w == write(heap, store, path, "", cwd)
                           cat == executeCommand(r.heap, r.store,
                                                 [cmd EXCEPT ![1] = "cat"], cwd)
                       IN  /\ r.heap = w.heap
                           /\ r.store = w.store
                           /\ (kind = "file"
                                 \/ (kind = "missing"
                                       /\ getParent(heap, path, cwd) # Null))
                               => /\ r.ret = [output |-> <<>>, cwd |-> cwd]
                                  /\ read(r.heap, path, cwd) = Str("")
                                  /\ cat.ret = [output |-> <<<<"">>>>, cwd |-> cwd]
                                  /\ cat.heap = r.heap

\* touch todo.txt was typed where todo.txt was a file, and the file is empty
\* now.
C29_Witness ==
    /\ answer.op = "executeCommand"
    /\ answer.input = <<"touch", " ", "todo.txt">>
    /\ answer.kind = "file"
    /\ answer.ret = [output |-> <<>>, cwd |-> answer.cwdIn]
    /\ read(heap, <<"todo.txt">>, answer.cwdIn) = Str("")
    /\ calls = 2

----------------------------------------------------------------------------
\* C30: on every tree and for every path and cwd, rmdir returns what rm
\* returns and leaves the tree and the persisted entry that rm leaves; both
\* return true exactly when the path is not the root and names a file or an
\* empty directory, and then the one entry under the path's last segment is
\* gone from its parent and nothing else has changed; otherwise nothing has
\* changed.
C30_RmdirIsRm ==
    Ready =>
        \A path \in PathArgs, cwd \in CwdArgs :
            LET viaRm == rm(heap, store, path, cwd)
                viaRmdir == rmdir(heap, store, path, cwd)
                parts == resolvePath(path, cwd)
                parent == getParent(heap, path, cwd)
            IN  /\ viaRmdir = viaRm
                /\ viaRmdir.ret = "true"
                       <=> Kind(heap, parts) \in {"file", "empty directory"}
                /\ viaRmdir.ret = "true"
                       => viaRmdir.heap =
                              [heap EXCEPT ![parent].children =
                                               MapDelete(@, LastOf(parts))]
                /\ viaRmdir.ret # "true"
                       => viaRmdir.heap = heap /\ viaRmdir.store = store

\* An rmdir of a path that named a file has returned true.
C30_Witness ==
    /\ last.op = "rmdir"
    /\ last.k1 = "file"
    /\ last.ret = "true"
    /\ WalkFrom(heap, RootId, last.p1) = Null

====
